---- MODULE Spec2Model ----
(***************************************************************************)
(* A model of the Utho Object Storage client (class UthoObjectStorage).    *)
(*                                                                         *)
(* JavaScript values whose dynamic type matters (config fields, upload     *)
(* content, response bodies, error fields) are tagged records [t |-> ...]. *)
(* A string is a sequence of chunks; strings whose characters matter (the  *)
(* upload path) are sequences of one-character chunks, so that split, pop  *)
(* and join are computed as the code computes them.                        *)
(***************************************************************************)
EXTENDS Integers, Sequences, FiniteSets, TLC

VARIABLES
    phase,        \* "new" before `new UthoObjectStorage(given)`, then "ready" or "threw"
    given,        \* the UthoConfig handed to the constructor
    config,       \* this.config
    httpClient,   \* this.httpClient: the axios instance's defaults
    warned,       \* whether the constructor wrote its custom-endpoint warning
    calls         \* the invocations of public methods so far, in order

vars == <<phase, given, config, httpClient, warned, calls>>

(***************************************************************************)
(* Bounds of the model.                                                    *)
(***************************************************************************)
MaxCalls == 1     \* invocations followed on the one client of Spec
MaxLen == 3       \* longest upload path, in characters, of UploadSpec
MaxOverlap == 2   \* invocations in flight at once on the client of ConcurrentSpec

(***************************************************************************)
(* JavaScript values.                                                      *)
(***************************************************************************)
Undefined == [t |-> "undefined"]
Null == [t |-> "null"]
Str(s) == [t |-> "string", v |-> s]
Num(n) == [t |-> "number", v |-> n]
Obj(f) == [t |-> "object", v |-> f]
Bool(b) == [t |-> "boolean", v |-> b]
List(items) == [t |-> "array", v |-> items]

\* ToBoolean: undefined, null, "", 0 and false are falsy, everything else
\* (objects and arrays, the empty ones too) truthy.
Truthy(x) ==
    CASE x.t = "undefined" -> FALSE
      [] x.t = "null" -> FALSE
      [] x.t = "string" -> Len(x.v) # 0
      [] x.t = "number" -> x.v # 0
      [] x.t = "boolean" -> x.v
      [] OTHER -> TRUE

\* a || b
Or(a, b) == IF Truthy(a) THEN a ELSE b

\* { ...a, ...b }: the keys of both, b's value where both have the key.
Spread(a, b) ==
    [k \in DOMAIN a \cup DOMAIN b |-> IF k \in DOMAIN b THEN b[k] ELSE a[k]]

NoHeaders == [k \in {} |-> <<>>]

(***************************************************************************)
(* The constructor.                                                        *)
(***************************************************************************)
DefaultEndpoint == <<"https://api.utho.com/v2">>
DefaultTimeout == 30000

\* Mutant: one key of the pair is taken for a complete pair.
AuthValidEitherKey(cfg) ==
    ~(~Truthy(cfg.token) /\ (~Truthy(cfg.accessKey) /\ ~Truthy(cfg.secretKey)))

\* The guard of the constructor's throw, negated.
AuthValid(cfg) ==
    ~(~Truthy(cfg.token) /\ (~Truthy(cfg.accessKey) \/ ~Truthy(cfg.secretKey)))

\* this.config = { endpoint: ... || default, timeout: ... || 30000, token, ... }
ResolvedConfig(cfg) ==
    [endpoint |-> Or(cfg.endpoint, Str(DefaultEndpoint)),
     timeout |-> Or(cfg.timeout, Num(DefaultTimeout)),
     token |-> cfg.token,
     accessKey |-> cfg.accessKey,
     secretKey |-> cfg.secretKey]

\* Mutant: the key pair is preferred to the token.
AuthHeadersKeysFirst(cfg) ==
    IF Truthy(cfg.accessKey) /\ Truthy(cfg.secretKey)
    THEN ("X-Access-Key" :> cfg.accessKey.v) @@ ("X-Secret-Key" :> cfg.secretKey.v)
    ELSE IF Truthy(cfg.token)
    THEN "Authorization" :> (<<"Bearer ">> \o cfg.token.v)
    ELSE NoHeaders

\* Mutant: the Authorization header is set whether or not there is a token.
AuthHeadersUnguarded(cfg) ==
    Spread("Authorization" :> (<<"Bearer ">> \o (IF cfg.token.t = "string"
                                                 THEN cfg.token.v ELSE <<"undefined">>)),
           IF Truthy(cfg.accessKey) /\ Truthy(cfg.secretKey)
           THEN ("X-Access-Key" :> cfg.accessKey.v) @@ ("X-Secret-Key" :> cfg.secretKey.v)
           ELSE NoHeaders)

\* if (config.token) Authorization = `Bearer ${token}`
\* else if (config.accessKey && config.secretKey) X-Access-Key, X-Secret-Key
AuthHeaders(cfg) ==
    IF Truthy(cfg.token)
    THEN "Authorization" :> (<<"Bearer ">> \o cfg.token.v)
    ELSE IF Truthy(cfg.accessKey) /\ Truthy(cfg.secretKey)
    THEN ("X-Access-Key" :> cfg.accessKey.v) @@ ("X-Secret-Key" :> cfg.secretKey.v)
    ELSE NoHeaders

\* The headers object handed to axios.create.
ClientHeaders(cfg) ==
    Spread(("Content-Type" :> <<"application/json">>)
               @@ ("User-Agent" :> <<"@utho/object-storage/1.0.0">>),
           AuthHeaders(cfg))

\* axios.create({ baseURL, timeout, headers })
CreateHttpClient(cfg) ==
    [baseURL |-> cfg.endpoint, timeout |-> cfg.timeout, headers |-> ClientHeaders(cfg)]

\* config.endpoint && config.endpoint !== default
WarnsCustomEndpoint(cfg) ==
    Truthy(cfg.endpoint) /\ cfg.endpoint # Str(DefaultEndpoint)

NoConfig == [endpoint |-> Undefined, timeout |-> Undefined, token |-> Undefined,
             accessKey |-> Undefined, secretKey |-> Undefined]
NoHttpClient == [baseURL |-> Undefined, timeout |-> Undefined, headers |-> NoHeaders]

(***************************************************************************)
(* Property access, exceptions and outcomes.                               *)
(***************************************************************************)
Returned(v) == [kind |-> "returned", value |-> v]
Threw(e) == [kind |-> "threw", error |-> e]

\* A TypeError raised by the runtime or by a library: an Error object with
\* neither a statusCode nor a code.
TypeError(msg) == Obj(("name" :> Str(<<"TypeError">>)) @@ ("message" :> Str(<<msg>>)))

IsNullish(x) == x.t \in {"undefined", "null"}

\* x[k] for a non-nullish x: own properties of objects, undefined otherwise.
Prop(x, k) ==
    IF x.t = "object" /\ k \in DOMAIN x.v THEN x.v[k] ELSE Undefined

\* x?.[k]
OptProp(x, k) == IF IsNullish(x) THEN Undefined ELSE Prop(x, k)

(***************************************************************************)
(* uploadFile: splitting the path and building the multipart body.         *)
(***************************************************************************)
Slash == "/"

RECURSIVE SplitAcc(_, _, _, _)
SplitAcc(s, i, cur, acc) ==
    IF i > Len(s) THEN Append(acc, cur)
    ELSE IF s[i] = Slash THEN SplitAcc(s, i + 1, <<>>, Append(acc, cur))
    ELSE SplitAcc(s, i + 1, Append(cur, s[i]), acc)

\* path.split('/'): the segments between the slashes; never empty.
Split(s) == SplitAcc(s, 1, <<>>, <<>>)

RECURSIVE Join(_)
\* parts.join('/')
Join(parts) ==
    IF Len(parts) = 0 THEN <<>>
    ELSE IF Len(parts) = 1 THEN parts[1]
    ELSE parts[1] \o <<Slash>> \o Join(Tail(parts))

FallbackName == <<"f", "i", "l", "e">>

\* Mutant: the first segment is taken for the file name (shift for pop).
FilenameOfShift(path) ==
    LET first == Split(path)[1]
    IN IF Len(first) # 0 THEN first ELSE FallbackName

\* Mutant: the combined path itself is taken for the file name.
FilenameOfWhole(path) == IF Len(path) # 0 THEN path ELSE FallbackName

\* const filename = pathParts.pop() || 'file'
FilenameOf(path) ==
    LET pathParts == Split(path)
        popped == pathParts[Len(pathParts)]
    IN IF Len(popped) # 0 THEN popped ELSE FallbackName

\* const directoryPath = pathParts.join('/'), after the pop
DirectoryPathOf(path) ==
    LET pathParts == Split(path)
    IN Join(SubSeq(pathParts, 1, Len(pathParts) - 1))

IsBuffer(file) == file.t = "buffer"

OctetStream == <<"application/octet-stream">>

\* Mutant: the buffer is appended without its options.
FilePartBare(file, path) == [name |-> "file", value |-> file, options |-> Undefined]

\* formData.append('file', file, { filename, contentType }) for a Buffer,
\* formData.append('file', file) otherwise.
FilePart(file, path) ==
    IF IsBuffer(file)
    THEN [name |-> "file", value |-> file,
          options |-> Obj(("filename" :> Str(FilenameOf(path)))
                          @@ ("contentType" :> Str(OctetStream)))]
    ELSE [name |-> "file", value |-> file, options |-> Undefined]

\* Mutant: the path part is always appended, with the combined path.
PathPartsFull(path) == <<[name |-> "path", value |-> Str(path), options |-> Undefined]>>

\* if (directoryPath) formData.append('path', directoryPath)
PathParts(path) ==
    IF Len(DirectoryPathOf(path)) # 0
    THEN <<[name |-> "path", value |-> Str(DirectoryPathOf(path)), options |-> Undefined]>>
    ELSE <<>>

\* Mutant: one FormData is shared by the uploads of the client, so an upload
\* appends to the parts that the upload before it left there.
FormPartsShared(file, path) ==
    (IF calls # <<>> /\ calls[Len(calls)].requests # <<>>
        /\ calls[Len(calls)].requests[1].data.t = "formdata"
     THEN calls[Len(calls)].requests[1].data.parts ELSE <<>>)
    \o <<FilePart(file, path)>> \o PathParts(path)

\* The parts of the FormData, in the order they are appended.
FormParts(file, path) == <<FilePart(file, path)>> \o PathParts(path)

\* What form-data's append accepts as a value: strings, numbers, buffers and
\* streams (a File is appended as a stream-like); anything else makes the
\* library raise a TypeError when it tries to read the value as a stream.
Appendable(file) == file.t \in {"buffer", "file", "string", "number"}

\* formData.getHeaders(): the multipart content type with the boundary that
\* this FormData instance generated.
FormHeaders(boundary) ==
    "content-type" :> <<"multipart/form-data; boundary=", boundary>>

\* Mutant: uploadFile derives its headers with the key pair first.
UploadAuthHeadersKeysFirst(cfg) ==
    IF Truthy(cfg.accessKey) /\ Truthy(cfg.secretKey)
    THEN ("X-Access-Key" :> cfg.accessKey.v) @@ ("X-Secret-Key" :> cfg.secretKey.v)
    ELSE IF Truthy(cfg.token)
    THEN "Authorization" :> (<<"Bearer ">> \o cfg.token.v)
    ELSE NoHeaders

\* The local authHeaders object of uploadFile, built from this.config.
UploadAuthHeaders(cfg) ==
    IF Truthy(cfg.token)
    THEN "Authorization" :> (<<"Bearer ">> \o cfg.token.v)
    ELSE IF Truthy(cfg.accessKey) /\ Truthy(cfg.secretKey)
    THEN ("X-Access-Key" :> cfg.accessKey.v) @@ ("X-Secret-Key" :> cfg.secretKey.v)
    ELSE NoHeaders

\* Mutant: the multipart headers are left out of the request's headers.
UploadHeadersAuthOnly(cfg, boundary) == UploadAuthHeaders(cfg)

\* headers: { ...authHeaders, ...formData.getHeaders() }
UploadHeaders(cfg, boundary) == Spread(UploadAuthHeaders(cfg), FormHeaders(boundary))

(***************************************************************************)
(* Requests, as the axios instance sends them.                             *)
(***************************************************************************)
\* axios treats header names case-insensitively and sends one header per name.
HeaderName(k) == IF k = "content-type" THEN "Content-Type" ELSE k

\* The instance's default headers merged with the headers of one request:
\* the request's value wins for a name both carry.
MergedHeaders(defaults, own) ==
    [k \in {HeaderName(x) : x \in DOMAIN defaults \cup DOMAIN own} |->
        IF \E x \in DOMAIN own : HeaderName(x) = k
        THEN own[CHOOSE x \in DOMAIN own : HeaderName(x) = k]
        ELSE defaults[CHOOSE x \in DOMAIN defaults : HeaderName(x) = k]]

Request(method, url, own, data) ==
    [method |-> method, baseURL |-> httpClient.baseURL, url |-> url,
     timeout |-> httpClient.timeout,
     headers |-> MergedHeaders(httpClient.headers, own), data |-> data]

Get(url) == Request("GET", url, NoHeaders, Undefined)
Post(url, data) == Request("POST", url, NoHeaders, data)
Delete(url) == Request("DELETE", url, NoHeaders, Undefined)

BucketUrl(dcslug, name) == <<"/objectstorage/", dcslug, "/bucket/", name>>

\* The body of uploadFile's request: the FormData with its parts.
FormData(file, path, boundary) ==
    [t |-> "formdata", parts |-> FormParts(file, path), boundary |-> boundary]

\* this.httpClient.post(`/objectstorage/${dcslug}/bucket/${name}/upload/`,
\*                      formData, { headers })
UploadRequest(dcslug, name, file, path, boundary) ==
    Request("POST", BucketUrl(dcslug, name) \o <<"/upload/">>,
            UploadHeaders(config, boundary), FormData(file, path, boundary))

\* Mutant: 'never' is passed through.
ActualExpiryRaw(expiryTime) == expiryTime

\* const actualExpiry = expiryTime === 'never' ? '1y' : expiryTime
ActualExpiry(expiryTime) == IF expiryTime = "never" THEN "1y" ELSE expiryTime

SharableUrlRequest(dcslug, name, filename, expiryTime) ==
    Get(BucketUrl(dcslug, name)
        \o <<"/download?path=", filename, "&expire=", ActualExpiry(expiryTime)>>)

\* Buffer.from(content, 'utf8') for code points below 0x800.
RECURSIVE Utf8(_)
Utf8(text) ==
    IF Len(text) = 0 THEN <<>>
    ELSE LET cp == Head(text)
         IN (IF cp < 128 THEN <<cp>>
             ELSE <<192 + (cp \div 64), 128 + (cp % 64)>>) \o Utf8(Tail(text))

Buffer(bytes) == [t |-> "buffer", bytes |-> bytes]

\* Mutant: the path prefix and the file name are joined the wrong way round.
PutFilePathSwapped(filename, path) ==
    IF Len(path) # 0 THEN filename \o <<Slash>> \o path ELSE filename

\* const filePath = path ? `${path}/${filename}` : filename
PutFilePath(filename, path) ==
    IF Len(path) # 0 THEN path \o <<Slash>> \o filename ELSE filename

\* fileToUpload: the UTF-8 bytes of a string, the content itself otherwise.
PutFileToUpload(content) ==
    IF content.t = "string" THEN Buffer(Utf8(content.v)) ELSE content

(***************************************************************************)
(* Responses: the interceptor, handleError and each method's result.       *)
(***************************************************************************)
\* Mutant: the status code is left undefined when there is no response.
HandleErrorNoStatus(error) ==
    LET response == Prop(error, "response")
        data == OptProp(response, "data")
    IN Obj(("code" :> Or(Or(OptProp(data, "code"), Prop(error, "code")),
                         Str(<<"UnknownError">>)))
           @@ ("message" :> Or(Or(OptProp(data, "message"), Prop(error, "message")),
                               Str(<<"An unknown error occurred">>)))
           @@ ("statusCode" :> OptProp(response, "status"))
           @@ ("requestId" :> OptProp(OptProp(response, "headers"), "x-request-id")))

\* handleError(error): the UthoError built from an axios error.
HandleError(error) ==
    LET response == Prop(error, "response")
        data == OptProp(response, "data")
    IN Obj(("code" :> Or(Or(OptProp(data, "code"), Prop(error, "code")),
                         Str(<<"UnknownError">>)))
           @@ ("message" :> Or(Or(OptProp(data, "message"), Prop(error, "message")),
                               Str(<<"An unknown error occurred">>)))
           @@ ("statusCode" :> Or(OptProp(response, "status"), Num(500)))
           @@ ("requestId" :> OptProp(OptProp(response, "headers"), "x-request-id")))

\* Mutant: the transport's error is rethrown as it came.
InterceptRaw(reply) ==
    IF reply.ok THEN Returned(reply.response) ELSE Threw(reply.error)

\* The response interceptor: a response is passed on, an error is replaced
\* by handleError's and thrown.
Intercept(reply) ==
    IF reply.ok THEN Returned(reply.response) ELSE Threw(HandleError(reply.error))

\* return response.data.data || response.data
Unwrap(response) ==
    LET data == Prop(response, "data")
    IN IF IsNullish(data) THEN Threw(TypeError("Cannot read properties of null"))
       ELSE Returned(Or(Prop(data, "data"), data))

\* listObjects: response.data.objects when truthy, the unwrapped data otherwise.
ObjectsOf(response) ==
    LET data == Prop(response, "data")
    IN IF IsNullish(data) THEN Threw(TypeError("Cannot read properties of null"))
       ELSE IF Truthy(Prop(data, "objects")) THEN Returned(Prop(data, "objects"))
       ELSE Returned(Or(Prop(data, "data"), data))

\* JSON.stringify of the values a response body holds here.
RECURSIVE Stringify(_)
Stringify(x) ==
    CASE x.t = "string" -> <<"\"">> \o x.v \o <<"\"">>
      [] x.t = "number" -> <<ToString(x.v)>>
      [] x.t = "null" -> <<"null">>
      [] x.t = "object" ->
            IF DOMAIN x.v = {} THEN <<"{}">>
            ELSE LET k == CHOOSE k \in DOMAIN x.v : TRUE
                 IN <<"{\"", k, "\":">> \o Stringify(x.v[k]) \o <<"}">>
      [] OTHER -> <<"undefined">>

\* getSharableUrl's result: the body when it is a string, else its url, else
\* its download_url, else its JSON text.
SharableUrlOf(response) ==
    LET data == Prop(response, "data")
    IN IF data.t = "string" THEN Returned(data)
       ELSE IF IsNullish(data) THEN Threw(TypeError("Cannot read properties of null"))
       ELSE IF Truthy(Prop(data, "url")) THEN Returned(Prop(data, "url"))
       ELSE IF Truthy(Prop(data, "download_url")) THEN Returned(Prop(data, "download_url"))
       ELSE Returned(Str(Stringify(data)))

True == Bool(TRUE)
False == Bool(FALSE)

NotFound == 404

\* Mutant: every failure of the details call is taken for "no such bucket".
BucketExistsOfAnyError(details) ==
    IF details.kind = "returned" THEN Returned(True) ELSE Returned(False)

\* bucketExists: try { await getObjectStorageDetails(); return true }
\* catch (error) { if (error.statusCode === 404) return false; throw error }
BucketExistsOf(details) ==
    IF details.kind = "returned" THEN Returned(True)
    ELSE IF Prop(details.error, "statusCode") = Num(NotFound) THEN Returned(False)
    ELSE Threw(details.error)

UnwrapOps == {"listObjectStorages", "createObjectStorage", "getObjectStorageDetails",
              "getObjectStoragePlans", "listAccessKeys", "createAccessKey"}
VoidOps == {"deleteObjectStorage", "modifyAccessKey", "updateAccessPolicy",
            "updatePermission", "createDirectory", "uploadFile", "deleteFile",
            "deleteDirectory", "putObject"}

\* What the call of method op settles to when its request is answered by reply.
Settle(op, reply) ==
    LET got == Intercept(reply)
    IN IF op = "bucketExists"
       THEN BucketExistsOf(IF got.kind = "threw" THEN got ELSE Unwrap(got.value))
       ELSE IF got.kind = "threw" THEN got
       ELSE IF op \in UnwrapOps THEN Unwrap(got.value)
       ELSE IF op = "listObjects" THEN ObjectsOf(got.value)
       ELSE IF op \in {"getSharableUrl", "getObject"} THEN SharableUrlOf(got.value)
       ELSE Returned(Undefined)

(***************************************************************************)
(* The state machine: construction, one action per public method, and the  *)
(* arrival of the answer to a pending request.                             *)
(***************************************************************************)
NoOutcome == [kind |-> "none"]
NoReply == [ok |-> FALSE, none |-> TRUE]

Init ==
    /\ phase = "new"
    /\ given = NoConfig
    /\ config = NoConfig
    /\ httpClient = NoHttpClient
    /\ warned = FALSE
    /\ calls = <<>>

\* new UthoObjectStorage(cfg)
Construct(cfg) ==
    /\ phase = "new"
    /\ given' = cfg
    /\ IF AuthValid(cfg)
       THEN /\ phase' = "ready"
            /\ config' = ResolvedConfig(cfg)
            /\ httpClient' = CreateHttpClient(ResolvedConfig(cfg))
            /\ warned' = WarnsCustomEndpoint(cfg)
       ELSE /\ phase' = "threw"
            /\ UNCHANGED <<config, httpClient, warned>>
    /\ UNCHANGED calls

\* A method is entered: it sends its one request and awaits the answer.
\* derived holds the auth headers the method built from this.config itself,
\* in a local of its own, on the way to the request.
AwaitDerived(op, args, req, derived) ==
    /\ phase = "ready"
    /\ calls' = Append(calls, [state |-> "pending", op |-> op, args |-> args,
                               requests |-> <<req>>, derived |-> derived,
                               reply |-> NoReply, outcome |-> NoOutcome])
    /\ UNCHANGED <<phase, given, config, httpClient, warned>>

\* The same for a method that leaves the headers to the axios instance.
Await(op, args, req) == AwaitDerived(op, args, req, <<>>)

\* A method is entered and settles without sending a request.
Finish(op, args, outcome) ==
    /\ phase = "ready"
    /\ calls' = Append(calls, [state |-> "done", op |-> op, args |-> args,
                               requests |-> <<>>, derived |-> <<>>,
                               reply |-> NoReply, outcome |-> outcome])
    /\ UNCHANGED <<phase, given, config, httpClient, warned>>

GetConfiguration ==
    Finish("getConfiguration", <<>>,
           Returned(Obj(("endpoint" :> config.endpoint)
                        @@ ("timeout" :> config.timeout)
                        @@ ("authType" :> IF Truthy(config.token)
                                          THEN Str(<<"bearer">>) ELSE Str(<<"accesskey">>))
                        @@ ("hasAuth" :> IF Truthy(config.token)
                                            \/ (Truthy(config.accessKey)
                                                /\ Truthy(config.secretKey))
                                         THEN True ELSE False))))

ListObjectStorages(dcslug) ==
    Await("listObjectStorages", [dcslug |-> dcslug],
          Get(<<"/objectstorage/", dcslug, "/bucket/">>))

CreateObjectStorage(request) ==
    Await("createObjectStorage", [request |-> request],
          Post(<<"/objectstorage/bucket/create/">>, request))

GetObjectStorageDetails(dcslug, name) ==
    Await("getObjectStorageDetails", [dcslug |-> dcslug, name |-> name],
          Get(BucketUrl(dcslug, name) \o <<"/">>))

DeleteObjectStorage(dcslug, name) ==
    Await("deleteObjectStorage", [dcslug |-> dcslug, name |-> name],
          Delete(BucketUrl(dcslug, name) \o <<"/delete/">>))

GetObjectStoragePlans ==
    Await("getObjectStoragePlans", <<>>, Get(<<"/pricing/objectstorage/">>))

ListAccessKeys(dcslug) ==
    Await("listAccessKeys", [dcslug |-> dcslug],
          Get(<<"/objectstorage/", dcslug, "/accesskeys">>))

CreateAccessKey(dcslug, request) ==
    Await("createAccessKey", [dcslug |-> dcslug, request |-> request],
          Post(<<"/objectstorage/", dcslug, "/accesskey/create">>, request))

ModifyAccessKey(dcslug, name, request) ==
    Await("modifyAccessKey", [dcslug |-> dcslug, name |-> name, request |-> request],
          Post(<<"/objectstorage/", dcslug, "/accesskey/", name, "/status">>, request))

UpdateAccessPolicy(dcslug, name, policy) ==
    Await("updateAccessPolicy", [dcslug |-> dcslug, name |-> name, policy |-> policy],
          Post(BucketUrl(dcslug, name) \o <<"/policy/", policy, "/">>,
               Obj("policy" :> Str(<<policy>>))))

UpdatePermission(dcslug, name, permission, accessKey) ==
    Await("updatePermission",
          [dcslug |-> dcslug, name |-> name, permission |-> permission,
           accessKey |-> accessKey],
          Post(BucketUrl(dcslug, name)
                   \o <<"/permission/", permission, "/accesskey/", accessKey>>,
               Obj(("selected_permission" :> Str(<<permission>>))
                   @@ ("selected_key" :> Str(<<accessKey>>)))))

ListObjects(dcslug, name) ==
    Await("listObjects", [dcslug |-> dcslug, name |-> name],
          Get(BucketUrl(dcslug, name) \o <<"/objects/">>))

CreateDirectory(dcslug, name, request) ==
    Await("createDirectory", [dcslug |-> dcslug, name |-> name, request |-> request],
          Post(BucketUrl(dcslug, name) \o <<"/createdirectory/">>, request))

\* The body of uploadFile, entered for method op (uploadFile itself, or
\* putObject, which delegates to it): the form is built, which the multipart
\* library may refuse, and then the one POST is sent.
Upload(op, args, dcslug, name, file, path, boundary) ==
    IF Appendable(file)
    THEN AwaitDerived(op, args, UploadRequest(dcslug, name, file, path, boundary),
                      <<UploadAuthHeaders(config)>>)
    ELSE Finish(op, args, Threw(TypeError("source.on is not a function")))

UploadFile(dcslug, name, file, path, boundary) ==
    Upload("uploadFile", [dcslug |-> dcslug, name |-> name, file |-> file, path |-> path],
           dcslug, name, file, path, boundary)

GetSharableUrl(dcslug, name, filename, expiryTime) ==
    Await("getSharableUrl",
          [dcslug |-> dcslug, name |-> name, filename |-> filename,
           expiryTime |-> expiryTime],
          SharableUrlRequest(dcslug, name, filename, expiryTime))

DeleteFile(dcslug, name, filename) ==
    Await("deleteFile", [dcslug |-> dcslug, name |-> name, filename |-> filename],
          Delete(BucketUrl(dcslug, name) \o <<"/delete/object?path=", filename, "/">>))

DeleteDirectory(dcslug, name, directoryName) ==
    Await("deleteDirectory",
          [dcslug |-> dcslug, name |-> name, directoryName |-> directoryName],
          Delete(BucketUrl(dcslug, name) \o <<"/delete/object?path=", directoryName>>))

\* bucketExists awaits getObjectStorageDetails, which sends the request.
BucketExists(dcslug, name) ==
    Await("bucketExists", [dcslug |-> dcslug, name |-> name],
          Get(BucketUrl(dcslug, name) \o <<"/">>))

\* putObject(dcslug, name, filename, content, path = '')
PutObject(dcslug, name, filename, content, path, boundary) ==
    Upload("putObject",
           [dcslug |-> dcslug, name |-> name, filename |-> filename,
            content |-> content, path |-> path],
           dcslug, name, PutFileToUpload(content), PutFilePath(filename, path), boundary)

\* An argument the caller leaves out.
Omitted == "<omitted>"

\* getObject(dcslug, name, filename, expiryTime = '1h')
GetObject(dcslug, name, filename, expiryTime) ==
    Await("getObject",
          [dcslug |-> dcslug, name |-> name, filename |-> filename,
           expiryTime |-> expiryTime],
          SharableUrlRequest(dcslug, name, filename,
                             IF expiryTime = Omitted THEN "1h" ELSE expiryTime))

\* Mutant: a request that failed is sent once more.
FollowUpsRetry(call, reply) == IF reply.ok THEN <<>> ELSE call.requests

\* The requests a method sends once its answer has arrived: none. The
\* interceptor throws what handleError built, and no method awaits the
\* transport a second time.
FollowUps(call, reply) == <<>>

\* The transport answers the pending request of call c with reply, and the
\* awaiting method runs to its end.
Respond(c, reply) ==
    /\ c \in DOMAIN calls
    /\ calls[c].state = "pending"
    /\ calls' = [calls EXCEPT ![c].state = "done",
                              ![c].reply = reply,
                              ![c].requests = @ \o FollowUps(calls[c], reply),
                              ![c].outcome = Settle(calls[c].op, reply)]
    /\ UNCHANGED <<phase, given, config, httpClient, warned>>

(***************************************************************************)
(* Inputs.                                                                 *)
(***************************************************************************)
Token == Str(<<"tok">>)
AccessKey == Str(<<"ak">>)
SecretKey == Str(<<"sk">>)
Empty == Str(<<>>)
CustomEndpoint == Str(<<"https://custom.api.com">>)

Config(token, accessKey, secretKey, endpoint, timeout) ==
    [token |-> token, accessKey |-> accessKey, secretKey |-> secretKey,
     endpoint |-> endpoint, timeout |-> timeout]

\* Every combination of absent, empty and set credentials, with and without
\* an endpoint and a timeout of the caller's.
AllConfigs ==
    {Config(t, a, s, e, n) :
        t \in {Undefined, Empty, Token}, a \in {Undefined, Empty, AccessKey},
        s \in {Undefined, Empty, SecretKey},
        e \in {Undefined, Empty, Str(DefaultEndpoint), CustomEndpoint},
        n \in {Undefined, Num(0), Num(DefaultTimeout), Num(60000)}}

\* The configurations of the client whose calls are followed.
Configs ==
    {Config(t, a, s, Undefined, Undefined) :
        t \in {Undefined, Empty, Token}, a \in {Undefined, AccessKey},
        s \in {Undefined, SecretKey}}
    \cup {Config(Token, Undefined, Undefined, CustomEndpoint, Num(60000))}

DcSlugs == {"innoida"}
Buckets == {"my-bucket"}
FileNames == {"file.txt"}
Durations == {"never", "1y", "30s"}
Boundaries == {"b1", "b2"}

\* Strings of at most n characters over the alphabet chars.
StringsUpTo(chars, n) == UNION {[1 .. k -> chars] : k \in 0 .. n}

PathChars == {"a", Slash}

Hello == Buffer(<<72, 105>>)
SomeFile == [t |-> "file", name |-> <<"report.pdf">>]
SomeText == Str(<<104, 233>>)
SomeObject == Obj("size" :> Num(1))

OkReply(data) ==
    [ok |-> TRUE,
     response |-> Obj(("status" :> Num(200)) @@ ("data" :> data)
                      @@ ("headers" :> Obj(NoHeaders)))]

\* An axios error for an answer with a status outside 2xx.
StatusReply(status, data, headers) ==
    [ok |-> FALSE,
     error |-> Obj(("code" :> Str(<<"ERR_BAD_RESPONSE">>))
                   @@ ("message" :> Str(<<"Request failed with status code", status>>))
                   @@ ("response" :> Obj(("status" :> Num(status)) @@ ("data" :> data)
                                         @@ ("headers" :> Obj(headers)))))]

\* An axios error for a request that got no answer.
NetworkReply(code, message) ==
    [ok |-> FALSE,
     error |-> Obj(("code" :> Str(<<code>>)) @@ ("message" :> Str(<<message>>)))]

Bucket == Obj("name" :> Str(<<"my-bucket">>))

OkReplies ==
    {OkReply(Obj("data" :> Bucket)), OkReply(Bucket), OkReply(Null),
     OkReply(Str(<<"https://cdn/file.txt">>)),
     OkReply(Obj("url" :> Str(<<"https://cdn/file.txt">>)))}

FailedReplies ==
    {StatusReply(404, Obj(("code" :> Str(<<"NoSuchBucket">>))
                          @@ ("message" :> Str(<<"bucket not found">>))),
                 "x-request-id" :> Str(<<"req-1">>)),
     StatusReply(403, Str(<<"Forbidden">>), NoHeaders),
     StatusReply(500, Null, NoHeaders),
     NetworkReply("ECONNABORTED", "timeout of 30000ms exceeded"),
     NetworkReply("ENOTFOUND", "getaddrinfo ENOTFOUND api.utho.com")}

Replies == OkReplies \cup FailedReplies

(***************************************************************************)
(* Spec: one client, constructed from any of Configs, and its calls, which *)
(* may overlap.                                                            *)
(***************************************************************************)
Next ==
    \/ \E cfg \in Configs : Construct(cfg)
    \/ Len(calls) < MaxCalls /\ GetConfiguration
    \/ \E dc \in DcSlugs :
          Len(calls) < MaxCalls /\ ListObjectStorages(dc)
    \/ Len(calls) < MaxCalls /\ CreateObjectStorage(Bucket)
    \/ \E dc \in DcSlugs, b \in Buckets :
          Len(calls) < MaxCalls /\ GetObjectStorageDetails(dc, b)
    \/ \E dc \in DcSlugs, b \in Buckets :
          Len(calls) < MaxCalls /\ DeleteObjectStorage(dc, b)
    \/ Len(calls) < MaxCalls /\ GetObjectStoragePlans
    \/ \E dc \in DcSlugs :
          Len(calls) < MaxCalls /\ ListAccessKeys(dc)
    \/ \E dc \in DcSlugs :
          Len(calls) < MaxCalls /\ CreateAccessKey(dc, Obj("accesskey" :> Str(<<"key-name">>)))
    \/ \E dc \in DcSlugs :
          Len(calls) < MaxCalls
              /\ ModifyAccessKey(dc, "key-name", Obj("status" :> Str(<<"disable">>)))
    \/ \E dc \in DcSlugs, b \in Buckets :
          Len(calls) < MaxCalls /\ UpdateAccessPolicy(dc, b, "private")
    \/ \E dc \in DcSlugs, b \in Buckets :
          Len(calls) < MaxCalls /\ UpdatePermission(dc, b, "read", "key-value")
    \/ \E dc \in DcSlugs, b \in Buckets :
          Len(calls) < MaxCalls /\ ListObjects(dc, b)
    \/ \E dc \in DcSlugs, b \in Buckets :
          Len(calls) < MaxCalls /\ CreateDirectory(dc, b, Obj("path" :> Str(<<"new-folder">>)))
    \/ \E dc \in DcSlugs, b \in Buckets, path \in {<<"a">>, <<"a", Slash, "a">>} :
          Len(calls) < MaxCalls /\ UploadFile(dc, b, Hello, path, "b1")
    \/ \E dc \in DcSlugs, b \in Buckets, f \in FileNames, d \in Durations :
          Len(calls) < MaxCalls /\ GetSharableUrl(dc, b, f, d)
    \/ \E dc \in DcSlugs, b \in Buckets, f \in FileNames :
          Len(calls) < MaxCalls /\ DeleteFile(dc, b, f)
    \/ \E dc \in DcSlugs, b \in Buckets :
          Len(calls) < MaxCalls /\ DeleteDirectory(dc, b, "old-folder")
    \/ \E dc \in DcSlugs, b \in Buckets :
          Len(calls) < MaxCalls /\ BucketExists(dc, b)
    \/ \E dc \in DcSlugs, b \in Buckets, path \in {<<>>, <<"a">>} :
          Len(calls) < MaxCalls /\ PutObject(dc, b, <<"a">>, SomeText, path, "b2")
    \/ \E dc \in DcSlugs, b \in Buckets, f \in FileNames, d \in {"never", Omitted} :
          Len(calls) < MaxCalls /\ GetObject(dc, b, f, d)
    \/ \E c \in 1 .. MaxCalls, reply \in Replies : Respond(c, reply)

Spec == Init /\ [][Next]_vars

(***************************************************************************)
(* ConstructSpec: the constructor on every configuration of AllConfigs,    *)
(* and what getConfiguration then reports.                                 *)
(***************************************************************************)
NextConstruct ==
    \/ \E cfg \in AllConfigs : Construct(cfg)
    \/ Len(calls) < MaxCalls /\ GetConfiguration

ConstructSpec == Init /\ [][NextConstruct]_vars

(***************************************************************************)
(* UploadSpec: one upload, through uploadFile or putObject, of every kind  *)
(* of content to every path of at most MaxLen characters.                  *)
(***************************************************************************)
UploadConfigs ==
    {Config(Token, Undefined, Undefined, Undefined, Undefined),
     Config(Undefined, AccessKey, SecretKey, Undefined, Undefined),
     Config(Token, AccessKey, SecretKey, Undefined, Undefined)}

UploadContents == {Hello, SomeFile, SomeText, SomeObject}

UploadReplies ==
    {OkReply(Obj("data" :> Bucket)),
     StatusReply(404, Null, NoHeaders),
     NetworkReply("ECONNABORTED", "timeout of 30000ms exceeded")}

NextUpload ==
    \/ \E cfg \in UploadConfigs : Construct(cfg)
    \/ \E dc \in DcSlugs, b \in Buckets, file \in UploadContents,
          path \in StringsUpTo(PathChars, MaxLen), boundary \in Boundaries :
          calls = <<>> /\ UploadFile(dc, b, file, path, boundary)
    \/ \E dc \in DcSlugs, b \in Buckets, filename \in StringsUpTo(PathChars, MaxLen - 1),
          content \in UploadContents, path \in StringsUpTo(PathChars, MaxLen - 1),
          boundary \in Boundaries :
          calls = <<>> /\ PutObject(dc, b, filename, content, path, boundary)
    \/ \E reply \in UploadReplies : Respond(1, reply)

UploadSpec == Init /\ [][NextUpload]_vars

(***************************************************************************)
(* AnswerSpec: one call of a method that returns the answer's payload, or  *)
(* of bucketExists, answered with every shape of body and of failure.      *)
(***************************************************************************)
AnswerConfigs ==
    {Config(Token, Undefined, Undefined, Undefined, Undefined),
     Config(Undefined, AccessKey, SecretKey, Undefined, Undefined)}

\* A payload that has a field named data of its own.
Keyed == Obj(("data" :> Str(<<"field">>)) @@ ("name" :> Str(<<"my-bucket">>)))

\* What the service may return as a payload: an object, lists, and the
\* values JavaScript takes for false.
Payloads ==
    {Bucket, Keyed, List(<<Bucket>>), List(<<>>), Obj(NoHeaders),
     Null, Num(0), Str(<<>>), False}

\* { data: payload }
Enveloped(payload) == Obj("data" :> payload)

AnswerBodies == {Enveloped(p) : p \in Payloads} \cup Payloads

\* An error of the transport with none of code, message and response.
BareReply == [ok |-> FALSE, error |-> Obj(NoHeaders)]

AnswerFailures ==
    {StatusReply(404, Obj(("code" :> Str(<<"NoSuchBucket">>))
                          @@ ("message" :> Str(<<"bucket not found">>))),
                 "x-request-id" :> Str(<<"req-1">>)),
     StatusReply(404, Str(<<>>), NoHeaders),
     StatusReply(503, Null, NoHeaders),
     StatusReply(400, Obj(("code" :> Num(0)) @@ ("message" :> Str(<<>>))), NoHeaders),
     NetworkReply("ECONNABORTED", "timeout of 30000ms exceeded"),
     NetworkReply("ENOTFOUND", "getaddrinfo ENOTFOUND api.utho.com"),
     NetworkReply("ECONNREFUSED", "connect ECONNREFUSED 127.0.0.1:443"),
     [ok |-> FALSE, error |-> Obj("message" :> Str(<<"socket hang up">>))],
     [ok |-> FALSE, error |-> Obj("code" :> Str(<<"ERR_NETWORK">>))],
     BareReply}

AnswerReplies == {OkReply(b) : b \in AnswerBodies} \cup AnswerFailures

NextAnswer ==
    \/ \E cfg \in AnswerConfigs : Construct(cfg)
    \/ \E dc \in DcSlugs : calls = <<>> /\ ListObjectStorages(dc)
    \/ calls = <<>> /\ CreateObjectStorage(Bucket)
    \/ \E dc \in DcSlugs, b \in Buckets :
          calls = <<>> /\ GetObjectStorageDetails(dc, b)
    \/ calls = <<>> /\ GetObjectStoragePlans
    \/ \E dc \in DcSlugs : calls = <<>> /\ ListAccessKeys(dc)
    \/ \E dc \in DcSlugs :
          calls = <<>> /\ CreateAccessKey(dc, Obj("accesskey" :> Str(<<"key-name">>)))
    \/ \E dc \in DcSlugs, b \in Buckets : calls = <<>> /\ BucketExists(dc, b)
    \/ \E reply \in AnswerReplies : Respond(1, reply)

AnswerSpec == Init /\ [][NextAnswer]_vars

(***************************************************************************)
(* ConcurrentSpec: up to MaxOverlap calls on one client, entered while     *)
(* earlier ones still await their answers, and answered in any order.      *)
(***************************************************************************)
NextConcurrent ==
    \/ \E cfg \in AnswerConfigs : Construct(cfg)
    \/ \E dc \in DcSlugs, b \in Buckets, path \in {<<"a">>, <<"a", Slash, "a">>},
          boundary \in Boundaries :
          Len(calls) < MaxOverlap /\ UploadFile(dc, b, Hello, path, boundary)
    \/ \E dc \in DcSlugs, b \in Buckets :
          Len(calls) < MaxOverlap /\ DeleteObjectStorage(dc, b)
    \/ \E dc \in DcSlugs, b \in Buckets :
          Len(calls) < MaxOverlap /\ BucketExists(dc, b)
    \/ \E dc \in DcSlugs, b \in Buckets, f \in FileNames :
          Len(calls) < MaxOverlap /\ GetSharableUrl(dc, b, f, "never")
    \/ \E c \in 1 .. MaxOverlap, reply \in UploadReplies : Respond(c, reply)

ConcurrentSpec == Init /\ [][NextConcurrent]_vars

(***************************************************************************)
(* What the properties below speak of.                                     *)
(***************************************************************************)
\* A credential the caller supplied: a string that is not empty.
Supplied(x) == x.t = "string" /\ x.v # <<>>

HasToken(cfg) == Supplied(cfg.token)
HasKeyPair(cfg) == Supplied(cfg.accessKey) /\ Supplied(cfg.secretKey)

\* The position of the last '/' of path, 0 when it has none.
LastSlash(path) ==
    IF \E i \in 1 .. Len(path) : path[i] = "/"
    THEN CHOOSE i \in 1 .. Len(path) :
            path[i] = "/" /\ \A j \in (i + 1) .. Len(path) : path[j] # "/"
    ELSE 0

AfterLastSlash(path) == SubSeq(path, LastSlash(path) + 1, Len(path))
BeforeLastSlash(path) == SubSeq(path, 1, LastSlash(path) - 1)

\* The parts of request r that are named n.
PartsNamed(r, n) == {i \in 1 .. Len(r.data.parts) : r.data.parts[i].name = n}

UploadCalls == {c \in DOMAIN calls : calls[c].op = "uploadFile"}
Sent(c) == calls[c].requests # <<>>

\* Every request sent so far.
AllRequests == UNION {{calls[c].requests[i] : i \in DOMAIN calls[c].requests} : c \in DOMAIN calls}

UploadUrl(args) == <<"/objectstorage/", args.dcslug, "/bucket/", args.name, "/upload/">>

(***************************************************************************)
(* C1. Construction throws, leaving no client, exactly when the config has *)
(* neither a token nor both an accessKey and a secretKey (a credential     *)
(* that is the empty string counting as absent); with a token, or with     *)
(* both keys, it succeeds.                                                 *)
(***************************************************************************)
C1_ConstructFailsIffNoCredentials ==
    phase # "new" =>
        /\ (phase = "threw") <=> ~(HasToken(given) \/ HasKeyPair(given))
        /\ (phase = "ready") <=> (HasToken(given) \/ HasKeyPair(given))
        /\ phase = "threw" => config = NoConfig /\ httpClient = NoHttpClient /\ calls = <<>>

\* Construction was refused for a config with an access key but no secret key.
C1_Witness ==
    /\ phase = "threw"
    /\ Supplied(given.accessKey) /\ ~Supplied(given.secretKey) /\ ~Supplied(given.token)

(***************************************************************************)
(* C2 as stated: for every path given to uploadFile the object name used   *)
(* is everything after the last '/', and the directory path everything     *)
(* before it (empty when the path has no '/').                             *)
(***************************************************************************)
C2_NameIsAfterLastSlash ==
    \A c \in UploadCalls :
        LET path == calls[c].args.path
        IN /\ FilenameOf(path) = AfterLastSlash(path)
           /\ DirectoryPathOf(path) = BeforeLastSlash(path)

(***************************************************************************)
(* C2 amended: the object name used is everything after the last '/',      *)
(* unless that is empty (the path is empty or ends in '/'), when it is the *)
(* literal 'file'; the directory path is everything before the last '/',   *)
(* and empty when the path has no '/'. A buffer's upload carries that      *)
(* object name as the filename of its 'file' part.                         *)
(***************************************************************************)
C2_NameIsAfterLastSlashOrFile ==
    \A c \in UploadCalls :
        LET path == calls[c].args.path
            name == IF AfterLastSlash(path) = <<>> THEN <<"f", "i", "l", "e">>
                    ELSE AfterLastSlash(path)
        IN /\ FilenameOf(path) = name
           /\ DirectoryPathOf(path) = BeforeLastSlash(path)
           /\ LastSlash(path) = 0 => DirectoryPathOf(path) = <<>>
           /\ (LastSlash(path) = 0 /\ path # <<>>) => FilenameOf(path) = path
           /\ (Sent(c) /\ IsBuffer(calls[c].args.file)) =>
                 calls[c].requests[1].data.parts[1].options.v["filename"] = Str(name)

\* A buffer was uploaded to a path with a directory and a file name.
C2_Witness ==
    \E c \in UploadCalls :
        /\ calls[c].args.path = <<"a", "/", "a">> /\ IsBuffer(calls[c].args.file)
        /\ Sent(c)
        /\ calls[c].requests[1].data.parts[1].options.v["filename"] = Str(<<"a">>)

(***************************************************************************)
(* C3. The multipart body of an uploadFile request has a 'path' part if    *)
(* and only if the directory path split from the combined path is not      *)
(* empty; there is then exactly one, its value is the directory path and   *)
(* never the combined path, and a path without '/' has no 'path' part.     *)
(***************************************************************************)
C3_PathPartIffDirectory ==
    \A c \in UploadCalls : Sent(c) =>
        LET path == calls[c].args.path
            r == calls[c].requests[1]
            dir == BeforeLastSlash(path)
        IN /\ (PartsNamed(r, "path") # {}) <=> (dir # <<>>)
           /\ Cardinality(PartsNamed(r, "path")) <= 1
           /\ \A i \in PartsNamed(r, "path") :
                 r.data.parts[i].value = Str(dir) /\ r.data.parts[i].value # Str(path)
           /\ LastSlash(path) = 0 => PartsNamed(r, "path") = {}

\* An upload to "a/a" carries the one path part "a".
C3_Witness ==
    \E c \in UploadCalls :
        /\ calls[c].args.path = <<"a", "/", "a">> /\ Sent(c)
        /\ \E i \in PartsNamed(calls[c].requests[1], "path") :
              calls[c].requests[1].data.parts[i].value = Str(<<"a">>)

(***************************************************************************)
(* C4. uploadFile with a byte buffer issues exactly one multipart POST to  *)
(* /objectstorage/{dc}/bucket/{name}/upload/ whose 'file' part carries the *)
(* buffer, with the object name split from the path (the one C2 speaks of: *)
(* what follows the last '/', or 'file' when that is empty) as filename    *)
(* and application/octet-stream as content type.                           *)
(***************************************************************************)
C4_BufferUploadIsOnePost ==
    \A c \in UploadCalls : IsBuffer(calls[c].args.file) =>
        LET a == calls[c].args
            r == calls[c].requests[1]
            name == IF AfterLastSlash(a.path) = <<>> THEN <<"f", "i", "l", "e">>
                    ELSE AfterLastSlash(a.path)
        IN /\ Len(calls[c].requests) = 1
           /\ r.method = "POST" /\ r.url = UploadUrl(a)
           /\ r.data.t = "formdata"
           /\ r.headers["Content-Type"][1] = "multipart/form-data; boundary="
           /\ Cardinality(PartsNamed(r, "file")) = 1
           /\ \A i \in PartsNamed(r, "file") :
                 /\ r.data.parts[i].value = a.file
                 /\ r.data.parts[i].options
                        = Obj(("filename" :> Str(name))
                              @@ ("contentType" :> Str(<<"application/octet-stream">>)))

\* The upload of a buffer to "a" was answered and returned; it had sent one
\* request with a file part and no path part.
C4_Witness ==
    \E c \in UploadCalls :
        /\ calls[c].args.file = Hello /\ calls[c].args.path = <<"a">>
        /\ calls[c].state = "done" /\ calls[c].outcome = Returned(Undefined)
        /\ Len(calls[c].requests) = 1
        /\ PartsNamed(calls[c].requests[1], "path") = {}

C6_BucketExists404Only ==
    \A c \in DOMAIN calls :
        (calls[c].op = "bucketExists" /\ calls[c].state = "done") =>
        LET details == Settle("getObjectStorageDetails", calls[c].reply)
            out == calls[c].outcome
            status == OptProp(Prop(calls[c].reply.error, "response"), "status")
        IN /\ details.kind = "returned" => out = Returned(True)
           /\ (details.kind = "threw" /\ Prop(details.error, "statusCode") = Num(404))
                 => out = Returned(False)
           /\ (details.kind = "threw" /\ Prop(details.error, "statusCode") # Num(404))
                 => out = details
           /\ out = Returned(False) => ~calls[c].reply.ok /\ status = Num(404)
           /\ (~calls[c].reply.ok /\ status # Num(404)) => out.kind = "threw"

\* A bucketExists was answered 404 and returned false.
C6_Witness ==
    \E c \in DOMAIN calls :
        /\ calls[c].op = "bucketExists" /\ calls[c].outcome = Returned(False)
        /\ OptProp(Prop(calls[c].reply.error, "response"), "status") = Num(404)

(***************************************************************************)
(* C7. In every request of every operation, JSON or multipart, a client    *)
(* configured with only a Bearer token sends neither X-Access-Key nor      *)
(* X-Secret-Key, and a client configured with only a key pair sends no     *)
(* Authorization.                                                          *)
(***************************************************************************)
C7_NoForeignAuthHeader ==
    \A r \in AllRequests :
        /\ (HasToken(given) /\ ~Supplied(given.accessKey) /\ ~Supplied(given.secretKey))
              => DOMAIN r.headers \cap {"X-Access-Key", "X-Secret-Key"} = {}
        /\ (~HasToken(given) /\ HasKeyPair(given))
              => /\ "Authorization" \notin DOMAIN r.headers
                 /\ r.headers["X-Access-Key"] = given.accessKey.v
                 /\ r.headers["X-Secret-Key"] = given.secretKey.v

\* A client with only a key pair has sent a multipart upload, with its keys.
C7_Witness ==
    /\ ~HasToken(given) /\ HasKeyPair(given)
    /\ \E r \in AllRequests :
          r.data.t = "formdata" /\ r.headers["X-Secret-Key"] = <<"sk">>

(***************************************************************************)
(* C8. With both a Bearer token and a key pair configured, construction    *)
(* succeeds, every request carries Authorization: Bearer <token> and no    *)
(* X-Access-Key or X-Secret-Key, and getConfiguration reports authType     *)
(* 'bearer'.                                                               *)
(***************************************************************************)
C8_BearerTakesPrecedence ==
    (phase # "new" /\ HasToken(given) /\ HasKeyPair(given)) =>
        /\ phase = "ready"
        /\ \A r \in AllRequests :
              /\ "Authorization" \in DOMAIN r.headers
              /\ r.headers["Authorization"] = <<"Bearer ">> \o given.token.v
              /\ DOMAIN r.headers \cap {"X-Access-Key", "X-Secret-Key"} = {}
        /\ \A c \in DOMAIN calls : calls[c].op = "getConfiguration" =>
              /\ calls[c].outcome.kind = "returned"
              /\ Prop(calls[c].outcome.value, "authType") = Str(<<"bearer">>)

\* A client with both credential sets has sent an upload with its token.
C8_Witness ==
    /\ HasToken(given) /\ HasKeyPair(given)
    /\ \E r \in AllRequests :
          r.data.t = "formdata" /\ r.headers["Authorization"] = <<"Bearer ", "tok">>

(***************************************************************************)
(* C9 as stated: uploadFile with content that is neither a byte buffer nor *)
(* a file-like handle fails with an InvalidArgumentError, and no request   *)
(* is sent for the call.                                                   *)
(***************************************************************************)
C9_InvalidContentFailsFast ==
    \A c \in UploadCalls :
        calls[c].args.file.t \notin {"buffer", "file"} =>
            /\ calls[c].requests = <<>>
            /\ calls[c].outcome.kind = "threw"
            /\ Prop(calls[c].outcome.error, "name") = Str(<<"InvalidArgumentError">>)

(***************************************************************************)
(* C10. putObject(dc, bucket, filename, content, path) sends the request   *)
(* that uploadFile(dc, bucket, buffer, combined) sends, where combined is  *)
(* path + '/' + filename for a path that is not empty and filename alone   *)
(* otherwise, and buffer is the UTF-8 bytes of a text content and the      *)
(* content itself otherwise.                                               *)
(***************************************************************************)
C10_PutObjectIsUploadFile ==
    \A c \in DOMAIN calls : calls[c].op = "putObject" =>
        LET a == calls[c].args
            combined == IF a.path # <<>> THEN a.path \o <<"/">> \o a.filename
                        ELSE a.filename
            buffer == IF a.content.t = "string"
                      THEN [t |-> "buffer", bytes |-> Utf8(a.content.v)]
                      ELSE a.content
        IN /\ Sent(c) <=> Appendable(buffer)
           /\ Sent(c) =>
                 calls[c].requests
                    = <<UploadRequest(a.dcslug, a.name, buffer, combined,
                                      calls[c].requests[1].data.boundary)>>
           /\ a.content = Str(<<104, 233>>) =>
                 calls[c].requests[1].data.parts[1].value
                    = [t |-> "buffer", bytes |-> <<104, 195, 169>>]

\* putObject of a text under the path "a" sent the upload of its bytes to "a/a".
C10_Witness ==
    \E c \in DOMAIN calls :
        /\ calls[c].op = "putObject" /\ calls[c].args.content = Str(<<104, 233>>)
        /\ calls[c].args.path = <<"a">> /\ calls[c].args.filename = <<"a">>
        /\ Sent(c)
        /\ calls[c].requests[1].data.parts[2].value = Str(<<"a">>)
        /\ calls[c].requests[1].data.parts[1].options.v["filename"] = Str(<<"a">>)

(***************************************************************************)
(* C11. In every upload request the headers are the auth headers merged    *)
(* with the multipart body's headers, the body's winning where both name a *)
(* header: the one Content-Type sent is the multipart one with the body's  *)
(* boundary, never the client's default application/json, and the auth     *)
(* header or headers of the client are still there.                        *)
(***************************************************************************)
C11_MultipartContentTypeWins ==
    \A c \in DOMAIN calls :
        (calls[c].op \in {"uploadFile", "putObject"} /\ Sent(c)) =>
        LET r == calls[c].requests[1]
            names == DOMAIN r.headers
        IN /\ "Content-Type" \in names /\ "content-type" \notin names
           /\ r.headers["Content-Type"]
                 = <<"multipart/form-data; boundary=", r.data.boundary>>
           /\ r.headers["Content-Type"] # <<"application/json">>
           /\ HasToken(given) =>
                 /\ "Authorization" \in names
                 /\ r.headers["Authorization"] = <<"Bearer ">> \o given.token.v
           /\ (~HasToken(given) /\ HasKeyPair(given)) =>
                 /\ {"X-Access-Key", "X-Secret-Key"} \subseteq names
                 /\ r.headers["X-Access-Key"] = given.accessKey.v
                 /\ r.headers["X-Secret-Key"] = given.secretKey.v
           /\ \A k \in (DOMAIN httpClient.headers) \ {"Content-Type"} :
                 k \in names /\ r.headers[k] = httpClient.headers[k]

\* A client with a key pair has sent an upload whose Content-Type is the
\* multipart one with boundary b2, beside its two key headers.
C11_Witness ==
    /\ phase = "ready"
    /\ httpClient.headers["Content-Type"] = <<"application/json">>
    /\ \E c \in UploadCalls :
          /\ Sent(c)
          /\ calls[c].requests[1].headers["Content-Type"]
                = <<"multipart/form-data; boundary=", "b2">>
          /\ "X-Access-Key" \in DOMAIN calls[c].requests[1].headers

\* The calls whose request the transport answered with a failure.
FailedCalls ==
    {c \in DOMAIN calls : calls[c].state = "done" /\ Sent(c) /\ ~calls[c].reply.ok}

\* e has the shape { code, message, statusCode, requestId? } and nothing of
\* the transport's error object.
IsNormalizedError(e) ==
    /\ e.t = "object"
    /\ {"code", "message", "statusCode"} \subseteq DOMAIN e.v
    /\ DOMAIN e.v \subseteq {"code", "message", "statusCode", "requestId"}
    /\ e.v["code"].t # "undefined" /\ e.v["message"].t # "undefined"
    /\ e.v["statusCode"].t = "number"
    /\ e.v["requestId"].t \in {"undefined", "string"}

(***************************************************************************)
(* C12 as stated: every failure of a remote call (a response outside 2xx,  *)
(* a timeout, a DNS or connection failure) in any public operation reaches *)
(* the caller as a NormalizedError { code, message, statusCode,            *)
(* requestId? }, and never as the transport's own error object.            *)
(***************************************************************************)
C12_EveryFailureIsThrownNormalized ==
    \A c \in FailedCalls :
        /\ calls[c].outcome.kind = "threw"
        /\ IsNormalizedError(calls[c].outcome.error)
        /\ calls[c].outcome.error # calls[c].reply.error

(***************************************************************************)
(* C12 amended: every failure of a remote call in any public operation     *)
(* reaches the caller as a NormalizedError and never as the transport's    *)
(* own error object, except in bucketExists, where a failure answered with *)
(* status 404 reaches the caller as the result false and no other failure  *)
(* is turned into a result.                                                *)
(***************************************************************************)
C12_FailureIsNormalizedOrNotFound ==
    \A c \in FailedCalls :
        LET out == calls[c].outcome
            status == OptProp(Prop(calls[c].reply.error, "response"), "status")
        IN IF calls[c].op = "bucketExists" /\ status = Num(404)
           THEN out = Returned(False)
           ELSE /\ out.kind = "threw"
                /\ IsNormalizedError(out.error)
                /\ out.error # calls[c].reply.error
                /\ "response" \notin DOMAIN out.error.v

\* A deleteObjectStorage whose request timed out threw a normalized error
\* with the transport's code.
C12_Witness ==
    \E c \in FailedCalls :
        /\ calls[c].op = "deleteObjectStorage"
        /\ "response" \notin DOMAIN calls[c].reply.error.v
        /\ calls[c].outcome.kind = "threw"
        /\ Prop(calls[c].outcome.error, "code") = Str(<<"ECONNABORTED">>)

\* The body of the answer that call c got.
BodyOf(c) == Prop(calls[c].reply.response, "data")

\* The calls of the methods that return the answer's payload, answered 2xx.
AnsweredCalls ==
    {c \in DOMAIN calls :
        calls[c].op \in {"listObjectStorages", "createObjectStorage",
                         "getObjectStorageDetails", "listAccessKeys",
                         "createAccessKey", "getObjectStoragePlans"}
        /\ calls[c].state = "done" /\ calls[c].reply.ok}

\* A body of the form { data: P }: an object with the one field data.
IsEnvelope(body) == body.t = "object" /\ DOMAIN body.v = {"data"}

(***************************************************************************)
(* C13 as stated: for the list, create and details operations, an answer   *)
(* whose body is { data: P } yields P, and an answer whose body is the raw *)
(* payload P yields P, for every payload P: also for a wrapped P that is   *)
(* empty, null or falsy, and for a raw P with a field data of its own.     *)
(***************************************************************************)
C13_PayloadIsReturned ==
    \A c \in AnsweredCalls :
        IF IsEnvelope(BodyOf(c))
        THEN calls[c].outcome = Returned(BodyOf(c).v["data"])
        ELSE calls[c].outcome = Returned(BodyOf(c))

SameCall(c, d) ==
    /\ calls[c].op = calls[d].op /\ calls[c].args = calls[d].args
    /\ (Sent(c) /\ Sent(d)) =>
          (calls[c].requests[1].data.t = "formdata" =>
              calls[c].requests[1].data.boundary = calls[d].requests[1].data.boundary)

(***************************************************************************)
(* C15. For any calls made concurrently on one client and any interleaving *)
(* of their requests and answers, the request a call sends and the result  *)
(* or error it returns are those of the call run alone: they depend on the *)
(* call's own arguments and own answer only, whichever calls were entered  *)
(* or answered before it, and an upload's body holds its own parts only.   *)
(* The first call, which is entered with no other call on the client, is   *)
(* the call run alone that every later call is compared with.              *)
(***************************************************************************)
C15_CallsAreIndependent ==
    /\ \A c, d \in DOMAIN calls : SameCall(c, d) =>
          /\ calls[c].requests = calls[d].requests
          /\ (calls[c].state = "done" /\ calls[d].state = "done"
                 /\ calls[c].reply = calls[d].reply)
                => calls[c].outcome = calls[d].outcome
    /\ \A c \in DOMAIN calls :
          /\ calls[c].state = "pending" =>
                calls[c].outcome = [kind |-> "none"] /\ Sent(c)
          /\ (Sent(c) /\ calls[c].op = "uploadFile") =>
                LET parts == calls[c].requests[1].data.parts
                IN /\ Cardinality(PartsNamed(calls[c].requests[1], "file")) = 1
                   /\ parts[1].value = calls[c].args.file
                   /\ Len(parts) = IF LastSlash(calls[c].args.path) > 1 THEN 2 ELSE 1
          /\ Sent(c) =>
                /\ calls[c].requests[1].baseURL = config.endpoint
                /\ \A k \in (DOMAIN httpClient.headers) \ {"Content-Type"} :
                      calls[c].requests[1].headers[k] = httpClient.headers[k]

\* Two uploads alike were in flight together; the later one was answered
\* first and returned, with the request that the earlier one sent, while the
\* earlier one still awaits its answer.
C15_Witness ==
    /\ Len(calls) >= 2
    /\ calls[1].op = "uploadFile" /\ calls[2].op = "uploadFile"
    /\ calls[1].args = calls[2].args /\ calls[1].args.path = <<"a", "/", "a">>
    /\ calls[1].requests = calls[2].requests
    /\ calls[1].state = "pending"
    /\ calls[2].state = "done" /\ calls[2].outcome = Returned(Undefined)

(***************************************************************************)
(* C16 as stated: after construction the client's effective endpoint and   *)
(* timeout are the values supplied in the config whenever they are         *)
(* supplied, and the defaults https://api.utho.com/v2 and 30000 ms exactly *)
(* when they are absent; getConfiguration reports these effective values.  *)
(* An endpoint that is the empty string counts as absent, as an empty      *)
(* credential does; a timeout is supplied when it is a number.             *)
(***************************************************************************)
C16_SuppliedOrDefault ==
    phase = "ready" =>
        /\ Supplied(given.endpoint) => config.endpoint = given.endpoint
        /\ ~Supplied(given.endpoint)
              => config.endpoint = Str(<<"https://api.utho.com/v2">>)
        /\ given.timeout.t = "number" => config.timeout = given.timeout
        /\ given.timeout.t = "undefined" => config.timeout = Num(30000)
        /\ httpClient.baseURL = config.endpoint
        /\ httpClient.timeout = config.timeout
        /\ \A c \in DOMAIN calls : calls[c].op = "getConfiguration" =>
              /\ Prop(calls[c].outcome.value, "endpoint") = config.endpoint
              /\ Prop(calls[c].outcome.value, "timeout") = config.timeout

AuthNames == {"Authorization", "X-Access-Key", "X-Secret-Key"}

\* The auth headers among the headers h.
AuthPart(h) == [k \in (DOMAIN h) \cap AuthNames |-> h[k]]

\* The configuration and the client are what construction made of the given
\* config, and every request sent carries the client's auth headers.
ConfigAndHeadersKept ==
    /\ config = ResolvedConfig(given)
    /\ httpClient = CreateHttpClient(config)
    /\ \A r \in AllRequests : AuthPart(r.headers) = AuthPart(httpClient.headers)

(***************************************************************************)
(* C17 as stated: the client's configuration and auth headers are computed *)
(* once, at construction, and no sequence of operations, successful or     *)
(* failing, changes them: every request of every operation uses the same   *)
(* derived auth headers, and no call computes auth headers again.          *)
(***************************************************************************)
C17_HeadersComputedOnce ==
    phase = "ready" =>
        /\ ConfigAndHeadersKept
        /\ \A c \in DOMAIN calls : calls[c].derived = <<>>

(***************************************************************************)
(* C17 amended: the client's configuration and the auth headers of its     *)
(* transport are computed at construction and no sequence of operations,   *)
(* successful or failing, changes them; every request of every operation   *)
(* carries the same auth headers. Only uploadFile (and putObject through   *)
(* it) computes auth headers again, once for each upload request, from the *)
(* unchanged configuration, and gets the headers computed at construction. *)
(***************************************************************************)
C17_HeadersKeptAndRederivedEqual ==
    phase = "ready" =>
        /\ ConfigAndHeadersKept
        /\ \A c \in DOMAIN calls :
              IF calls[c].op \in {"uploadFile", "putObject"} /\ Sent(c)
              THEN calls[c].derived = <<AuthPart(httpClient.headers)>>
              ELSE calls[c].derived = <<>>

\* An upload of a client with both credential sets failed; the headers it
\* derived for itself are the client's, and the client is as constructed.
C17_Witness ==
    /\ phase = "ready" /\ HasToken(given) /\ HasKeyPair(given)
    /\ httpClient = CreateHttpClient(ResolvedConfig(given))
    /\ \E c \in UploadCalls :
          /\ calls[c].state = "done" /\ calls[c].outcome.kind = "threw"
          /\ calls[c].derived = <<"Authorization" :> <<"Bearer ", "tok">>>>

(***************************************************************************)
(* C18 as stated: deleteFile and deleteDirectory issue a DELETE request of *)
(* the same shape, /objectstorage/{dc}/bucket/{name}/delete/object?path=   *)
(* {path}, whose path value is exactly the object or directory path the    *)
(* caller supplied, with nothing appended or removed.                      *)
(***************************************************************************)
C18_DeletePathAsSupplied ==
    \A c \in DOMAIN calls : calls[c].op \in {"deleteFile", "deleteDirectory"} =>
        LET a == calls[c].args
            path == IF calls[c].op = "deleteFile" THEN a.filename ELSE a.directoryName
            r == calls[c].requests[1]
        IN /\ Len(calls[c].requests) = 1
           /\ r.method = "DELETE"
           /\ r.url = <<"/objectstorage/", a.dcslug, "/bucket/", a.name,
                        "/delete/object?path=", path>>

(***************************************************************************)
(* C19. For every combined path passed to uploadFile the object name       *)
(* extracted for the upload has no '/' in it: it is never a nested name,   *)
(* and the file part of a buffer's upload is named by it.                  *)
(***************************************************************************)
C19_NameHasNoSlash ==
    \A c \in UploadCalls :
        LET name == FilenameOf(calls[c].args.path)
        IN /\ name # <<>>
           /\ \A i \in 1 .. Len(name) : name[i] # "/"
           /\ (Sent(c) /\ IsBuffer(calls[c].args.file)) =>
                 LET sent == calls[c].requests[1].data.parts[1].options.v["filename"].v
                 IN sent = name /\ \A i \in 1 .. Len(sent) : sent[i] # "/"

\* A buffer was uploaded to the path "//a", and its file part is named "a".
C19_Witness ==
    \E c \in UploadCalls :
        /\ calls[c].args.path = <<"/", "/", "a">> /\ IsBuffer(calls[c].args.file)
        /\ Sent(c)
        /\ calls[c].requests[1].data.parts[1].options.v["filename"] = Str(<<"a">>)
        /\ calls[c].requests[1].data.parts[2].value = Str(<<"/">>)

(***************************************************************************)
(* C20. Every error that handleError produces has a defined code, a        *)
(* message that is not empty and a numeric statusCode. For a failure with  *)
(* no HTTP response (timeout, DNS, connection refused) the statusCode is   *)
(* 500, the code is the transport's own error code, or 'UnknownError' when *)
(* it has none, and the message is not empty; so bucketExists never takes  *)
(* such a failure for a 404 and always re-raises it.                       *)
(***************************************************************************)
C20_ErrorFieldsDefined ==
    \A c \in FailedCalls :
        LET raw == calls[c].reply.error
            out == calls[c].outcome
            e == out.error.v
        IN /\ out.kind = "threw" =>
                 /\ {"code", "message", "statusCode"} \subseteq DOMAIN e
                 /\ e["code"].t \notin {"undefined", "null"}
                 /\ e["message"].t \notin {"undefined", "null"}
                 /\ e["message"] # Str(<<>>)
                 /\ e["statusCode"].t = "number"
           /\ "response" \notin DOMAIN raw.v =>
                 /\ out.kind = "threw"
                 /\ e["statusCode"] = Num(500)
                 /\ e["code"] = (IF "code" \in DOMAIN raw.v THEN raw.v["code"]
                                 ELSE Str(<<"UnknownError">>))
                 /\ e["message"].t = "string" /\ e["message"].v # <<>>
                 /\ calls[c].op = "bucketExists" => out # Returned(False)

\* A bucketExists whose request failed with an error that has neither code,
\* message nor response re-raised it as UnknownError with statusCode 500.
C20_Witness ==
    \E c \in FailedCalls :
        /\ calls[c].op = "bucketExists"
        /\ calls[c].reply.error = Obj(NoHeaders)
        /\ calls[c].outcome.kind = "threw"
        /\ Prop(calls[c].outcome.error, "code") = Str(<<"UnknownError">>)
        /\ Prop(calls[c].outcome.error, "statusCode") = Num(500)

====
